---- MODULE Spec2Model ----
(***************************************************************************)
(* Model of the Snowflake batch export:                                    *)
(*   SnowflakeBatchExportWorkflow.run, insert_into_snowflake_activity and  *)
(*   get_data_interval_from_workflow_inputs                                *)
(* of posthog/temporal/workflows/snowflake_batch_export.py.                *)
(*                                                                         *)
(* The workflow is one thread of control; the insert activity is run by    *)
(* the orchestrator up to maximum_attempts times.  Every remote call of    *)
(* the activity (source store, destination statement) is one step that     *)
(* either succeeds or raises.                                              *)
(***************************************************************************)
EXTENDS Integers, Sequences, FiniteSets, TLC

\* ------------------------------------------------------------------ bounds
\* Number of events in the source store.
NumEvents == 6
\* Largest configured BATCH_EXPORT_SNOWFLAKE_UPLOAD_CHUNK_SIZE_BYTES tried.
MaxThreshold == 4
\* Invocations of the workflow for one batch export (specification SpecRuns).
MaxInvocations == 2

\* ------------------------------------------------------- program constants
\* dt.timedelta(seconds=3600)
Window == 3600
\* RetryPolicy(maximum_attempts=3) of the insert activity
maximum_attempts == 3
\* Variant: the retry policy does not name ConnectionError.
non_retryable_validation_only == {"ValueError"}
\* non_retryable_error_types of the insert activity
non_retryable_error_types == {"ConnectionError", "ValueError"}

\* ------------------------------------------------------------- value model
\* Python values that reach the interval resolver.  A str carries its text
\* class ("" | "iso" | "garbage") and, for ISO-8601 text, the instant it
\* denotes (seconds).
None == [k |-> "None", s |-> "", t |-> 0]
Str(text, t) == [k |-> "str", s |-> text, t |-> t]
Datetime(t) == [k |-> "datetime", s |-> "", t |-> t]
IntValue == [k |-> "int", s |-> "", t |-> 0]

\* Python truthiness of an optional string (`if not data_interval_end_str`).
Truthy(v) == v.k # "None" /\ ~(v.k = "str" /\ v.s = "")

\* dt.datetime.fromisoformat: a datetime for ISO text, ValueError otherwise.
fromisoformat(v) ==
    IF v.k = "str" /\ v.s = "iso"
    THEN [ok |-> TRUE, err |-> "none", end |-> v.t]
    ELSE [ok |-> FALSE, err |-> "ValueError", end |-> 0]

\* datetime.isoformat(): the ISO text of an instant.
isoformat(t) == Str("iso", t)

\* toDateTime({data_interval_start}, 'UTC') of the select query.
toDateTime(v) == v.t

\* The interval ends the runs are tried on.
IntervalEnds == {Window, 2 * Window}

\* ------------------------------------------------------------ source store
\* The events table: event i was produced by team_id(i) at timestamp(i); the
\* scan order is the order of the ids, which is not the timestamp order.
TeamIds == {1, 2}
Uuids == 1..NumEvents
team_id(i) == IF i % 4 = 3 THEN 2 ELSE 1
timestamp(i) == 2 * Window - (i - 1) * 900
\* The properties column arrives as JSON text; one event's text is not JSON.
properties(i) == IF i % 4 = 3 THEN "garbled" ELSE "text"
\* Bytes of the content of event i beyond the smallest JSON object.
payload(i) == i % 2

\* The record the source store returns for event i.
EventRecord(i) == [uuid |-> i, properties |-> properties(i)]
\* The empty (falsy) record.
EmptyRecord == [uuid |-> 0, properties |-> "text"]

\* SELECT_QUERY_TEMPLATE: the WHERE clause, over the events now in the store.
SelectQuery(store, team, interval_start, interval_end) ==
    {i \in store :
        /\ timestamp(i) >= toDateTime(interval_start)
        /\ timestamp(i) < toDateTime(interval_end)
        /\ team_id(i) = team}

\* A set of ids as the sequence in scan order.
RECURSIVE ScanOrder(_)
ScanOrder(S) ==
    IF S = {} THEN <<>>
    ELSE LET m == CHOOSE x \in S : \A y \in S : x <= y
         IN <<m>> \o ScanOrder(S \ {m})

\* ----------------------------------------------------------- serialization
\* row = {**result, "properties": json.loads(result.get("properties", "{}"))}
\* json.loads raises JSONDecodeError (a ValueError subclass) on text that is
\* not JSON.
JsonLoadsOk(result) == result.properties = "text"
Row(result) == [uuid |-> result.uuid, properties |-> "object"]

\* len(json.dumps(row).encode("utf-8")): "{}" is 2 bytes, plus the content.
JsonDumpsLen(row) == 2 + payload(row.uuid)
\* The two writes of one row: the JSON text and the newline.
LineLen(row) == JsonDumpsLen(row) + 1

RECURSIVE Flatten(_)
Flatten(files) ==
    IF files = <<>> THEN <<>> ELSE Head(files) \o Flatten(Tail(files))

\* -------------------------------------------------------- interval resolver
\* workflow.info().search_attributes.get("TemporalScheduledStartTime"): absent
\* (None) or a list of values.
SearchAttrAbsent == [present |-> FALSE, list |-> <<>>]
SearchAttr(list) == [present |-> TRUE, list |-> list]

ResolveError(e) == [ok |-> FALSE, err |-> e, start |-> 0, end |-> 0]
ResolveOk(end) ==
    [ok |-> TRUE, err |-> "none", start |-> end - Window, end |-> end]

\* Variant: the scheduled start time is read first and the explicit end is
\* used only when the search attribute is absent.
get_data_interval_schedule_first(inp, search_attr) ==
    IF search_attr.present
    THEN IF search_attr.list = <<>>
         THEN ResolveError("IndexError")
         ELSE IF search_attr.list[1].k = "str"
         THEN LET p == fromisoformat(search_attr.list[1])
              IN IF p.ok THEN ResolveOk(p.end) ELSE ResolveError(p.err)
         ELSE IF search_attr.list[1].k = "datetime"
         THEN ResolveOk(search_attr.list[1].t)
         ELSE ResolveError("TypeError")
    ELSE IF ~Truthy(inp.data_interval_end)
    THEN ResolveError("TypeError")
    ELSE LET p == fromisoformat(inp.data_interval_end)
         IN IF p.ok THEN ResolveOk(p.end) ELSE ResolveError(p.err)

get_data_interval_from_workflow_inputs(inp, search_attr) ==
    IF ~Truthy(inp.data_interval_end)
    THEN IF ~search_attr.present
         THEN ResolveError("TypeError")
         ELSE IF search_attr.list = <<>>
         THEN ResolveError("IndexError")
         ELSE IF search_attr.list[1].k = "str"
         THEN LET p == fromisoformat(search_attr.list[1])
              IN IF p.ok THEN ResolveOk(p.end) ELSE ResolveError(p.err)
         ELSE IF search_attr.list[1].k = "datetime"
         THEN ResolveOk(search_attr.list[1].t)
         ELSE ResolveError("TypeError")
    ELSE LET p == fromisoformat(inp.data_interval_end)
         IN IF p.ok THEN ResolveOk(p.end) ELSE ResolveError(p.err)

\* ------------------------------------------------------------------ errors
NoError == [type |-> "none", activity |-> "", cause |-> ""]
\* An exception raised by the workflow code itself.
WorkflowCodeError(type) == [type |-> type, activity |-> "", cause |-> ""]
\* What workflow.execute_activity raises when the activity failed for good.
ActivityError(activity, cause) ==
    [type |-> "ActivityError", activity |-> activity, cause |-> cause]

\* ------------------------------------------------------------------- state
VARIABLES
    inputs,             \* SnowflakeBatchExportInputs: team_id, data_interval_end
    search_attributes,  \* the TemporalScheduledStartTime search attribute
    CHUNK_SIZE,         \* settings.BATCH_EXPORT_SNOWFLAKE_UPLOAD_CHUNK_SIZE_BYTES
    events,             \* ids of the events now in the source store
    wf_pc,              \* position of SnowflakeBatchExportWorkflow.run
    interval,           \* insert_inputs.data_interval_start / _end (ISO text)
    runs,               \* the run records of the run tracker
    update_inputs,      \* UpdateBatchExportRunStatusInputs(id, status)
    exc,                \* the exception raised by the try block, if any
    wf_error,           \* the exception the workflow terminated with
    update_calls,       \* executions of update_export_run_status
    attempt,            \* attempts of the insert activity started so far
    act_pc,             \* position of insert_into_snowflake_activity
    client_open,        \* the source store client is held
    conn_open,          \* the destination connection is open
    file_open,          \* local_results_file is open
    local_results_file, \* rows written to the current temporary file
    results_iterator,   \* records the iterator has yet to yield
    fetched,            \* records the iterator yielded in this attempt
    count,              \* result of get_rows_count in this attempt, -1 before
    queries,            \* destination statements issued in this attempt
    staged_files,       \* contents of the files PUT in this attempt
    stage,              \* files in the table stage of the destination
    table,              \* rows of the destination table
    table_created,      \* the destination table exists
    copy_issued,        \* COPY INTO statements issued over all attempts
    connect_calls,      \* snowflake.connector.connect calls of this attempt
    insert_result,      \* how execute_activity(insert_into_snowflake_activity)
                        \* ended: "pending", "returned" or the error type
    invocations,        \* invocations of the workflow started so far
    runs_at_start,      \* the run records when this invocation started
    file_id,            \* which temporary file local_results_file is (0: none)
    files_created,      \* temporary files created by this attempt
    put_ids,            \* the temporary file each PUT of this attempt named
    open_files          \* the temporary files that are open

envvars ==
    <<inputs, search_attributes, CHUNK_SIZE, invocations, runs_at_start>>
wfvars ==
    <<wf_pc, interval, runs, update_inputs, exc, wf_error, update_calls,
      insert_result>>
resvars == <<client_open, conn_open, file_open, open_files>>
bufvars ==
    <<local_results_file, results_iterator, fetched, file_id, files_created,
      put_ids>>
destvars == <<stage, table, table_created, copy_issued>>
vars ==
    <<inputs, search_attributes, CHUNK_SIZE, events, wf_pc, interval, runs,
      update_inputs, exc, wf_error, update_calls, attempt, act_pc, client_open,
      conn_open, file_open, local_results_file, results_iterator, fetched,
      count, queries, staged_files, stage, table, table_created, copy_issued,
      connect_calls, insert_result, invocations, runs_at_start, file_id,
      files_created, put_ids, open_files>>

\* ------------------------------------------------------------------ inputs
ExplicitEnds ==
    {None, Str("", 0), Str("garbage", 0)}
    \cup {Str("iso", e) : e \in IntervalEnds}
ScheduleSignals ==
    {SearchAttrAbsent, SearchAttr(<<>>), SearchAttr(<<IntValue>>),
     SearchAttr(<<Str("", 0)>>)}
    \cup {SearchAttr(<<Str("iso", e)>>) : e \in IntervalEnds}
    \cup {SearchAttr(<<Datetime(e)>>) : e \in IntervalEnds}

Init ==
    /\ inputs \in [team_id : TeamIds, data_interval_end : ExplicitEnds]
    /\ search_attributes \in ScheduleSignals
    \* A manually triggered run carries no schedule signal or a stale one.
    /\ Truthy(inputs.data_interval_end) =>
            search_attributes \in
                {SearchAttrAbsent, SearchAttr(<<Datetime(Window)>>)}
    /\ CHUNK_SIZE \in 0..MaxThreshold
    /\ events = Uuids
    /\ wf_pc = "resolve"
    /\ interval = <<>>
    /\ runs = <<>>
    /\ update_inputs = [id |-> 0, status |-> "none"]
    /\ exc = NoError
    /\ wf_error = NoError
    /\ update_calls = 0
    /\ attempt = 0
    /\ act_pc = "idle"
    /\ client_open = FALSE
    /\ conn_open = FALSE
    /\ file_open = FALSE
    /\ local_results_file = <<>>
    /\ results_iterator = <<>>
    /\ fetched = <<>>
    /\ count = -1
    /\ queries = <<>>
    /\ staged_files = <<>>
    /\ stage = <<>>
    /\ table = <<>>
    /\ table_created = FALSE
    /\ copy_issued = 0
    /\ connect_calls = 0
    /\ insert_result = "pending"
    /\ invocations = 1
    /\ runs_at_start = <<>>
    /\ file_id = 0
    /\ files_created = 0
    /\ put_ids = <<>>
    /\ open_files = {}

\* ---------------------------------------------------------------- workflow
\* data_interval_start, data_interval_end =
\*     get_data_interval_from_workflow_inputs(inputs)
ResolveInterval ==
    /\ wf_pc = "resolve"
    /\ LET r == get_data_interval_from_workflow_inputs(inputs, search_attributes)
       IN IF r.ok
          THEN /\ interval' = <<isoformat(r.start), isoformat(r.end)>>
               /\ wf_pc' = "create_run"
               /\ UNCHANGED wf_error
          ELSE /\ wf_error' = WorkflowCodeError(r.err)
               /\ wf_pc' = "done"
               /\ UNCHANGED interval
    /\ UNCHANGED <<envvars, events, runs, update_inputs, exc, update_calls,
                   insert_result, attempt, act_pc, resvars, bufvars, count,
                   connect_calls, queries,
                   staged_files, destvars>>

\* create_export_run: a run record with status Starting; returns its id.
create_export_run(team, data_interval_start, data_interval_end) ==
    [team_id |-> team, data_interval_start |-> data_interval_start,
     data_interval_end |-> data_interval_end, status |-> "Starting"]

\* Variant: create_export_run is executed a second time although its first
\* execution had created the record.
CreateRunOkTwice ==
    /\ wf_pc = "create_run"
    /\ runs' = runs \o <<create_export_run(inputs.team_id, interval[1], interval[2]),
                         create_export_run(inputs.team_id, interval[1], interval[2])>>
    /\ update_inputs' = [id |-> Len(runs) + 2, status |-> "Completed"]
    /\ wf_pc' = "insert"
    /\ act_pc' = "scheduled"
    /\ UNCHANGED <<envvars, events, interval, exc, wf_error, update_calls, insert_result,
                   attempt, resvars, bufvars, count, connect_calls, queries, staged_files,
                   destvars>>

\* Variant: create_export_run is given the end of the interval as its start.
CreateRunOkEndAsStart ==
    /\ wf_pc = "create_run"
    /\ runs' = Append(runs, create_export_run(inputs.team_id, interval[2], interval[2]))
    /\ update_inputs' = [id |-> Len(runs) + 1, status |-> "Completed"]
    /\ wf_pc' = "insert"
    /\ act_pc' = "scheduled"
    /\ UNCHANGED <<envvars, events, interval, exc, wf_error, update_calls, insert_result,
                   attempt, resvars, bufvars, count, connect_calls, queries, staged_files,
                   destvars>>

\* run_id = await workflow.execute_activity(create_export_run, ...), then
\* update_inputs = UpdateBatchExportRunStatusInputs(id=run_id, status="Completed")
CreateRunOk ==
    /\ wf_pc = "create_run"
    /\ runs' = Append(runs, create_export_run(inputs.team_id, interval[1], interval[2]))
    /\ update_inputs' = [id |-> Len(runs) + 1, status |-> "Completed"]
    /\ wf_pc' = "insert"
    /\ act_pc' = "scheduled"
    /\ UNCHANGED <<envvars, events, interval, exc, wf_error, update_calls, insert_result,
                   attempt, resvars, bufvars, count, connect_calls, queries, staged_files,
                   destvars>>

\* Variant: the failure of create_export_run is swallowed and run() goes on
\* to the insert activity without a run id.
CreateRunFailsSwallowed ==
    /\ wf_pc = "create_run"
    /\ wf_error' = ActivityError("create_export_run", "IntegrityError")
    /\ wf_pc' = "insert"
    /\ act_pc' = "scheduled"
    /\ UNCHANGED <<envvars, events, interval, runs, update_inputs, exc,
                   update_calls, insert_result, attempt, resvars, bufvars, count, connect_calls,
                   queries, staged_files, destvars>>

\* create_export_run failed for good: the exception leaves run().
CreateRunFails ==
    /\ wf_pc = "create_run"
    /\ wf_error' = ActivityError("create_export_run", "IntegrityError")
    /\ wf_pc' = "done"
    /\ UNCHANGED <<envvars, events, interval, runs, update_inputs, exc,
                   update_calls, insert_result, attempt, act_pc, resvars, bufvars, count, connect_calls,
                   queries, staged_files, destvars>>

\* Variant: the status update is not in a finally block, so an exception of
\* the try block leaves run() at once.
ExceptHandlerSkipsUpdate(e) ==
    /\ update_inputs' = [update_inputs EXCEPT !.status = "Failed"]
    /\ exc' = e
    /\ wf_pc' = "done"

\* Variant: the handler re-raises without setting the status.
ExceptHandlerKeepsStatus(e) ==
    /\ UNCHANGED update_inputs
    /\ exc' = e
    /\ wf_pc' = "update"

\* except Exception as e: update_inputs.status = "Failed"; raise
ExceptHandler(e) ==
    /\ update_inputs' = [update_inputs EXCEPT !.status = "Failed"]
    /\ exc' = e
    /\ wf_pc' = "update"

\* The try block ended without an exception.
TryCompletes ==
    /\ UNCHANGED <<update_inputs, exc>>
    /\ wf_pc' = "update"

\* update_export_run_status: sets the status of the run record.
update_export_run_status(records, upd) ==
    [records EXCEPT ![upd.id].status = upd.status]

\* finally: await workflow.execute_activity(update_export_run_status, ...)
\* The pending exception, if any, leaves run() once the activity returned.
UpdateStatusOk ==
    /\ wf_pc = "update"
    /\ update_calls' = update_calls + 1
    /\ runs' = update_export_run_status(runs, update_inputs)
    /\ wf_error' = exc
    /\ wf_pc' = "done"
    /\ UNCHANGED <<envvars, events, interval, update_inputs, exc, insert_result, attempt,
                   act_pc, resvars, bufvars, count, connect_calls, queries, staged_files,
                   destvars>>

\* The status update failed for good: its exception, raised inside the
\* finally block, is the one that leaves run().
UpdateStatusFails ==
    /\ wf_pc = "update"
    /\ update_calls' = update_calls + 1
    /\ wf_error' = ActivityError("update_export_run_status", "OperationalError")
    /\ wf_pc' = "done"
    /\ UNCHANGED <<envvars, events, interval, runs, update_inputs, exc,
                   insert_result, attempt, act_pc, resvars, bufvars, count, connect_calls, queries,
                   staged_files, destvars>>

\* ---------------------------------------------------------------- activity
\* What the orchestrator does with the end of an attempt.
\* The activity returned: execute_activity returns and the try block ends.
ActivityReturns ==
    /\ act_pc' = "idle"
    /\ insert_result' = "returned"
    /\ TryCompletes
    /\ UNCHANGED <<interval, runs, wf_error, update_calls>>

\* RetryPolicy(maximum_attempts=3, non_retryable_error_types=[...]): the error
\* type is the name of the exception's class.  A failure that is not retried
\* is raised by execute_activity into the try block.
Retryable(err) ==
    /\ err \notin non_retryable_error_types
    /\ err # "CancelledError"
    /\ attempt < maximum_attempts

ActivityRaises(err) ==
    IF Retryable(err)
    THEN /\ act_pc' = "scheduled"
         /\ UNCHANGED wfvars
    ELSE /\ act_pc' = "idle"
         /\ insert_result' = err
         /\ ExceptHandler(ActivityError("insert_into_snowflake_activity", err))
         /\ UNCHANGED <<interval, runs, wf_error, update_calls>>

\* Variant: without the inner `finally: local_results_file.close()`.
ReleaseAllButFile ==
    /\ client_open' = FALSE
    /\ conn_open' = FALSE
    /\ UNCHANGED <<file_open, open_files>>

\* The exits of `async with get_client()`, `finally: conn.close()` and
\* `finally: local_results_file.close()`.
ReleaseAll ==
    /\ client_open' = FALSE
    /\ conn_open' = FALSE
    /\ file_open' = FALSE
    /\ open_files' = open_files \ {file_id}

\* local_results_file.tell(): the bytes written to the current file.
RECURSIVE tell(_)
tell(file) ==
    IF file = <<>> THEN 0 ELSE LineLen(Head(file)) + tell(Tail(file))

\* The orchestrator starts an attempt: async with get_client() as client
StartAttempt ==
    /\ wf_pc = "insert"
    /\ act_pc = "scheduled"
    /\ attempt' = attempt + 1
    /\ act_pc' = "is_alive"
    /\ client_open' = TRUE
    /\ local_results_file' = <<>>
    /\ results_iterator' = <<>>
    /\ fetched' = <<>>
    /\ count' = -1
    /\ connect_calls' = 0
    /\ queries' = <<>>
    /\ staged_files' = <<>>
    /\ file_id' = 0
    /\ files_created' = 0
    /\ put_ids' = <<>>
    /\ UNCHANGED <<envvars, events, wfvars, conn_open, file_open, open_files,
                   destvars>>

\* schedule_to_close_timeout elapsed while a retry was pending.
ScheduleToCloseTimeout ==
    /\ wf_pc = "insert"
    /\ act_pc = "scheduled"
    /\ attempt >= 1
    /\ act_pc' = "idle"
    /\ insert_result' = "TimeoutError"
    /\ ExceptHandler(ActivityError("insert_into_snowflake_activity", "TimeoutError"))
    /\ UNCHANGED <<envvars, events, interval, runs, wf_error, update_calls,
                   attempt, resvars, bufvars, count, connect_calls, queries, staged_files,
                   destvars>>

\* if not await client.is_alive(): raise ConnectionError(...)
IsAlive ==
    /\ act_pc = "is_alive"
    /\ \/ /\ act_pc' = "get_rows_count"
          /\ UNCHANGED <<wfvars, resvars>>
       \/ /\ ReleaseAll
          /\ ActivityRaises("ConnectionError")
    /\ UNCHANGED <<envvars, events, attempt, bufvars, count, connect_calls, queries,
                   staged_files, destvars>>

\* Variant: no early return on a zero count.
GetRowsCountNoShortCircuit ==
    /\ act_pc = "get_rows_count"
    /\ count' = Cardinality(SelectQuery(events, inputs.team_id, interval[1], interval[2]))
    /\ act_pc' = "connect"
    /\ UNCHANGED <<wfvars, resvars>>
    /\ UNCHANGED <<envvars, events, attempt, bufvars, connect_calls, queries,
                   staged_files, destvars>>

\* count = await get_rows_count(...); if count == 0: return
GetRowsCount ==
    /\ act_pc = "get_rows_count"
    /\ count' = Cardinality(SelectQuery(events, inputs.team_id, interval[1], interval[2]))
    /\ IF count' = 0
       THEN /\ ReleaseAll
            /\ ActivityReturns
       ELSE /\ act_pc' = "connect"
            /\ UNCHANGED <<wfvars, resvars>>
    /\ UNCHANGED <<envvars, events, attempt, bufvars, connect_calls, queries,
                   staged_files, destvars>>

\* A query of the source store raised (get_rows_count or __anext__).
SourceQueryFails ==
    /\ act_pc \in {"get_rows_count", "anext"}
    /\ ReleaseAll
    /\ ActivityRaises("ChClientError")
    /\ UNCHANGED <<envvars, events, attempt, bufvars, count, connect_calls, queries,
                   staged_files, destvars>>

\* The orchestrator cancels the activity while it awaits the source store.
Cancel ==
    /\ act_pc \in {"is_alive", "get_rows_count", "anext"}
    /\ ReleaseAll
    /\ ActivityRaises("CancelledError")
    /\ UNCHANGED <<envvars, events, attempt, bufvars, count, connect_calls, queries,
                   staged_files, destvars>>

\* conn = snowflake.connector.connect(...), outside the try block.
Connect ==
    /\ act_pc = "connect"
    /\ connect_calls' = connect_calls + 1
    /\ \/ /\ conn_open' = TRUE
          /\ act_pc' = "use_database"
          /\ UNCHANGED <<wfvars, client_open, file_open, open_files>>
       \/ /\ ReleaseAll
          /\ ActivityRaises("DatabaseError")
    /\ UNCHANGED <<envvars, events, attempt, bufvars, count, queries,
                   staged_files, destvars>>

\* The statement cursor.execute sends at each position of the activity.
Statement(pc) ==
    CASE pc = "use_database" -> "USE DATABASE"
      [] pc = "use_schema" -> "USE SCHEMA"
      [] pc = "create_table" -> "CREATE TABLE IF NOT EXISTS"
      [] pc = "put_chunk" -> "PUT"
      [] pc = "put_final" -> "PUT"
      [] pc = "copy_into" -> "COPY INTO"
StatementPcs ==
    {"use_database", "use_schema", "create_table", "put_chunk", "put_final",
     "copy_into"}

\* cursor.execute(stmt): the statement reaches the destination.
Issue(stmt) ==
    /\ queries' = Append(queries, stmt)
    /\ copy_issued' = IF stmt = "COPY INTO" THEN copy_issued + 1 ELSE copy_issued

\* Variant: a handler removes the files of this attempt from the stage when
\* a statement fails.
StatementFailsCleansStage ==
    /\ act_pc \in StatementPcs
    /\ Issue(Statement(act_pc))
    /\ stage' = SubSeq(stage, 1, Len(stage) - Len(staged_files))
    /\ ReleaseAll
    /\ ActivityRaises("ProgrammingError")
    /\ UNCHANGED <<envvars, events, attempt, bufvars, count, connect_calls, staged_files,
                   table, table_created>>

\* cursor.execute raised: the statement had no effect; the finally blocks run.
StatementFails ==
    /\ act_pc \in StatementPcs
    /\ Issue(Statement(act_pc))
    /\ ReleaseAll
    /\ ActivityRaises("ProgrammingError")
    /\ UNCHANGED <<envvars, events, attempt, bufvars, count, connect_calls, staged_files,
                   stage, table, table_created>>

\* cursor.execute(f'USE DATABASE "{inputs.database}"')
UseDatabase ==
    /\ act_pc = "use_database"
    /\ Issue("USE DATABASE")
    /\ act_pc' = "use_schema"
    /\ UNCHANGED <<envvars, events, wfvars, attempt, resvars, bufvars, count, connect_calls,
                   staged_files, stage, table, table_created>>

\* Variant: the schema is never selected.
UseSchemaSkipped ==
    /\ act_pc = "use_schema"
    /\ act_pc' = "create_table"
    /\ UNCHANGED <<envvars, events, wfvars, attempt, resvars, bufvars, count,
                   connect_calls, queries, staged_files, destvars>>

\* cursor.execute(f'USE SCHEMA "{inputs.schema}"')
UseSchema ==
    /\ act_pc = "use_schema"
    /\ Issue("USE SCHEMA")
    /\ act_pc' = "create_table"
    /\ UNCHANGED <<envvars, events, wfvars, attempt, resvars, bufvars, count, connect_calls,
                   staged_files, stage, table, table_created>>

\* get_results_iterator: the records of the select query, in scan order.
get_results_iterator(store, team, interval_start, interval_end) ==
    LET ids == ScanOrder(SelectQuery(store, team, interval_start, interval_end))
    IN [n \in 1..Len(ids) |-> EventRecord(ids[n])]

\* cursor.execute(CREATE TABLE IF NOT EXISTS ...), then
\* results_iterator = get_results_iterator(...) and
\* local_results_file = tempfile.NamedTemporaryFile()
CreateTable ==
    /\ act_pc = "create_table"
    /\ Issue("CREATE TABLE IF NOT EXISTS")
    /\ table_created' = TRUE
    /\ results_iterator' =
            get_results_iterator(events, inputs.team_id, interval[1], interval[2])
    /\ local_results_file' = <<>>
    /\ file_open' = TRUE
    /\ files_created' = files_created + 1
    /\ file_id' = files_created'
    /\ open_files' = open_files \cup {file_id'}
    /\ act_pc' = "anext"
    /\ UNCHANGED <<envvars, events, wfvars, attempt, client_open, conn_open,
                   fetched, put_ids, count, connect_calls, staged_files, stage,
                   table>>

\* Variant: a file that has reached the chunk size is full.
ChunkIsFullAtThreshold(file) == tell(file) # 0 /\ tell(file) >= CHUNK_SIZE

\* if tell() and tell() > settings.BATCH_EXPORT_SNOWFLAKE_UPLOAD_CHUNK_SIZE_BYTES
ChunkIsFull(file) == tell(file) # 0 /\ tell(file) > CHUNK_SIZE

\* One turn of the loop: result = await results_iterator.__anext__(), then the
\* row is written to local_results_file.
Fetch ==
    /\ act_pc = "anext"
    /\ results_iterator # <<>>
    /\ LET result == Head(results_iterator)
       IN /\ results_iterator' = Tail(results_iterator)
          /\ fetched' = Append(fetched, result)
          /\ IF JsonLoadsOk(result)
             THEN /\ local_results_file' = Append(local_results_file, Row(result))
                  /\ act_pc' = IF ChunkIsFull(local_results_file')
                               THEN "put_chunk" ELSE "anext"
                  /\ UNCHANGED <<wfvars, resvars>>
             ELSE /\ UNCHANGED local_results_file
                  /\ ReleaseAll
                  /\ ActivityRaises("JSONDecodeError")
    /\ UNCHANGED <<envvars, events, attempt, file_id, files_created, put_ids,
                   count, connect_calls, queries, staged_files, destvars>>

\* except StopAsyncIteration: break
StopAsyncIteration ==
    /\ act_pc = "anext"
    /\ results_iterator = <<>>
    /\ act_pc' = "put_final"
    /\ UNCHANGED <<envvars, events, wfvars, attempt, resvars, bufvars, count, connect_calls,
                   queries, staged_files, destvars>>

\* Variant: `continue` instead of `break` on an empty record.
FetchEmptyRecordContinues ==
    /\ act_pc = "anext"
    /\ results_iterator # <<>>
    /\ fetched' = Append(fetched, EmptyRecord)
    /\ act_pc' = "anext"
    /\ UNCHANGED <<envvars, events, wfvars, attempt, resvars,
                   local_results_file, results_iterator, file_id,
                   files_created, put_ids, count, connect_calls, queries,
                   staged_files, destvars>>

\* if not result: break -- the iterator yielded an empty record.
FetchEmptyRecord ==
    /\ act_pc = "anext"
    /\ results_iterator # <<>>
    /\ fetched' = Append(fetched, EmptyRecord)
    /\ act_pc' = "put_final"
    /\ UNCHANGED <<envvars, events, wfvars, attempt, resvars,
                   local_results_file, results_iterator, file_id,
                   files_created, put_ids, count, connect_calls, queries,
                   staged_files, destvars>>

\* Variant: only a buffer over the threshold is staged.
PutFileOnlyFull(files, file) ==
    IF ChunkIsFull(file) THEN Append(files, file) ELSE files

\* PUT file://{local_results_file.name} @%"{table_name}": the file's contents
\* become a new file of the table stage.
PutFile(files, file) == Append(files, file)

\* Variant: the file is kept after the PUT in the loop and written further.
PutChunkKeepsFile ==
    /\ act_pc = "put_chunk"
    /\ Issue("PUT")
    /\ staged_files' = PutFile(staged_files, local_results_file)
    /\ stage' = PutFile(stage, local_results_file)
    /\ put_ids' = Append(put_ids, file_id)
    /\ act_pc' = "anext"
    /\ UNCHANGED <<envvars, events, wfvars, attempt, resvars, local_results_file,
                   file_id, files_created, results_iterator, fetched, count,
                   connect_calls, table, table_created>>

\* In the loop: flush, PUT, then close the file and open a new one.
PutChunk ==
    /\ act_pc = "put_chunk"
    /\ Issue("PUT")
    /\ staged_files' = PutFile(staged_files, local_results_file)
    /\ stage' = PutFile(stage, local_results_file)
    /\ put_ids' = Append(put_ids, file_id)
    /\ local_results_file' = <<>>
    /\ file_open' = TRUE
    /\ files_created' = files_created + 1
    /\ file_id' = files_created'
    /\ open_files' = (open_files \ {file_id}) \cup {file_id'}
    /\ act_pc' = "anext"
    /\ UNCHANGED <<envvars, events, wfvars, attempt, client_open, conn_open,
                   results_iterator, fetched, count, connect_calls, table, table_created>>

\* Variant: a failure of the last PUT is swallowed.
PutFinalIgnoresFailure ==
    /\ act_pc = "put_final"
    /\ Issue("PUT")
    /\ file_open' = FALSE
    /\ open_files' = open_files \ {file_id}
    /\ act_pc' = "copy_into"
    /\ UNCHANGED <<envvars, events, wfvars, attempt, client_open, conn_open,
                   bufvars, count, connect_calls, staged_files, stage, table,
                   table_created>>

\* After the loop: flush, PUT, then close the file.
PutFinal ==
    /\ act_pc = "put_final"
    /\ Issue("PUT")
    /\ staged_files' = PutFile(staged_files, local_results_file)
    /\ stage' = PutFile(stage, local_results_file)
    /\ put_ids' = Append(put_ids, file_id)
    /\ file_open' = FALSE
    /\ open_files' = open_files \ {file_id}
    /\ act_pc' = "copy_into"
    /\ UNCHANGED <<envvars, events, wfvars, attempt, client_open, conn_open,
                   local_results_file, results_iterator, fetched, file_id,
                   files_created, count, connect_calls, table, table_created>>

\* COPY INTO "{table_name}" ... PURGE = TRUE: every row of every staged file
\* is loaded into the table and the staged files are removed.
CopyIntoTable(rows, files) == rows \o Flatten(files)

\* cursor.execute(COPY INTO ...), then the finally blocks and the return.
CopyInto ==
    /\ act_pc = "copy_into"
    /\ Issue("COPY INTO")
    /\ table' = CopyIntoTable(table, stage)
    /\ stage' = <<>>
    /\ ReleaseAll
    /\ ActivityReturns
    /\ UNCHANGED <<envvars, events, attempt, bufvars, count, connect_calls, staged_files,
                   table_created>>

\* -------------------------------------------------------------- environment
\* The events of the source store are deleted while the export runs.
SourcePurge ==
    /\ wf_pc = "insert"
    /\ events # {}
    /\ events' = {}
    /\ UNCHANGED <<envvars, wfvars, attempt, act_pc, resvars, bufvars, count, connect_calls,
                   queries, staged_files, destvars>>

\* The workflow is started again for the same batch export, with the same
\* inputs: run() starts afresh; the run records, the source store and the
\* destination are what the earlier invocations left.
Reinvoke ==
    /\ wf_pc = "done"
    /\ invocations < MaxInvocations
    /\ invocations' = invocations + 1
    /\ runs_at_start' = runs
    /\ UNCHANGED <<inputs, search_attributes>>
    /\ wf_pc' = "resolve"
    /\ interval' = <<>>
    /\ update_inputs' = [id |-> 0, status |-> "none"]
    /\ exc' = NoError
    /\ wf_error' = NoError
    /\ update_calls' = 0
    /\ insert_result' = "pending"
    /\ attempt' = 0
    /\ local_results_file' = <<>>
    /\ results_iterator' = <<>>
    /\ fetched' = <<>>
    /\ file_id' = 0
    /\ files_created' = 0
    /\ put_ids' = <<>>
    /\ count' = -1
    /\ connect_calls' = 0
    /\ queries' = <<>>
    /\ staged_files' = <<>>
    /\ copy_issued' = 0
    /\ UNCHANGED <<CHUNK_SIZE, events, runs, act_pc, resvars, stage, table,
                   table_created>>

Next ==
    \/ ResolveInterval
    \/ CreateRunOk
    \/ CreateRunFails
    \/ StartAttempt
    \/ ScheduleToCloseTimeout
    \/ IsAlive
    \/ GetRowsCount
    \/ SourceQueryFails
    \/ Cancel
    \/ Connect
    \/ StatementFails
    \/ UseDatabase
    \/ UseSchema
    \/ CreateTable
    \/ Fetch
    \/ StopAsyncIteration
    \/ FetchEmptyRecord
    \/ PutChunk
    \/ PutFinal
    \/ CopyInto
    \/ UpdateStatusOk
    \/ UpdateStatusFails
    \/ SourcePurge

Spec == Init /\ [][Next]_vars

\* Several invocations for one batch export of team 1, one after the other,
\* over a source store nobody else writes to. The chunk size is larger than
\* the export, so no file is staged inside the loop.
InitRuns ==
    /\ Init
    /\ CHUNK_SIZE = MaxThreshold
    /\ inputs.team_id = 1
    /\ inputs.data_interval_end \in {None, Str("iso", Window)}
    /\ search_attributes \in {SearchAttrAbsent, SearchAttr(<<Datetime(Window)>>)}
NextRuns ==
    \/ ResolveInterval
    \/ CreateRunOk
    \/ CreateRunFails
    \/ StartAttempt
    \/ ScheduleToCloseTimeout
    \/ IsAlive
    \/ GetRowsCount
    \/ SourceQueryFails
    \/ Cancel
    \/ Connect
    \/ StatementFails
    \/ UseDatabase
    \/ UseSchema
    \/ CreateTable
    \/ Fetch
    \/ StopAsyncIteration
    \/ FetchEmptyRecord
    \/ PutFinal
    \/ CopyInto
    \/ UpdateStatusOk
    \/ UpdateStatusFails
    \/ Reinvoke
SpecRuns == InitRuns /\ [][NextRuns]_vars

\* ================================================================== claims
\* Number of occurrences of x in a sequence.
Occurrences(seq, x) == Cardinality({n \in DOMAIN seq : seq[n] = x})
\* The last statement issued in the current attempt is COPY INTO.
LastIsCopy == queries # <<>> /\ queries[Len(queries)] = "COPY INTO"
\* The rows of the non-empty records the iterator yielded, in arrival order.
RECURSIVE RowsOf(_)
RowsOf(records) ==
    IF records = <<>> THEN <<>>
    ELSE IF Head(records) = EmptyRecord THEN RowsOf(Tail(records))
    ELSE <<Row(Head(records))>> \o RowsOf(Tail(records))
\* The ids the select query matches in the store as it was at the start.
InWindow == SelectQuery(Uuids, inputs.team_id, interval[1], interval[2])

\* C1: in an execution of the activity the statements are USE DATABASE, USE
\* SCHEMA, CREATE TABLE IF NOT EXISTS, then PUTs, then COPY INTO as the last
\* one; nothing is issued unless a non-zero count was found, and an execution
\* with a non-zero count that returns has issued COPY INTO.
C1_StatementOrder ==
    /\ \A n \in DOMAIN queries :
          /\ n = 1 => queries[n] = "USE DATABASE"
          /\ n = 2 => queries[n] = "USE SCHEMA"
          /\ n = 3 => queries[n] = "CREATE TABLE IF NOT EXISTS"
          /\ n > 3 => queries[n] \in {"PUT", "COPY INTO"}
          /\ queries[n] = "COPY INTO" => n = Len(queries) /\ n > 4
    /\ count <= 0 => queries = <<>>
    /\ (insert_result = "returned" /\ count > 0) => LastIsCopy
C1_Witness ==
    insert_result = "returned" /\ Len(queries) >= 6 /\ LastIsCopy

\* C2 (as claimed): after a completed run over an undisturbed source whose
\* stream was read to its end, every row of the interval and team is in the
\* destination table exactly once and no other row is there.
C2_ExactlyOnce ==
    (/\ wf_pc = "done"
     /\ update_inputs.status = "Completed"
     /\ events = Uuids
     /\ Occurrences(fetched, EmptyRecord) = 0)
    => /\ \A i \in InWindow : Occurrences(table, Row(EventRecord(i))) = 1
       /\ \A n \in DOMAIN table : table[n].uuid \in InWindow

\* C3 (as claimed): with a threshold of 1 byte and N >= 1 rows read, exactly
\* N PUT statements have been issued when COPY INTO is reached.
C3_OnePutPerRow ==
    (/\ CHUNK_SIZE = 1
     /\ act_pc = "copy_into"
     /\ Len(fetched) >= 1
     /\ Occurrences(fetched, EmptyRecord) = 0)
    => Occurrences(queries, "PUT") = Len(fetched)

\* C4: when the activity reaches COPY INTO, the staged files of the execution,
\* concatenated in staging order, are exactly the rows the iterator yielded,
\* in arrival order, and every PUT issued has staged a file.
C4_StagedEqualsFetched ==
    (act_pc = "copy_into" \/ LastIsCopy)
    => /\ Flatten(staged_files) = RowsOf(fetched)
       /\ Len(staged_files) = Occurrences(queries, "PUT")
C4_Witness ==
    /\ act_pc = "copy_into"
    /\ Len(staged_files) >= 2
    /\ staged_files[Len(staged_files)] # <<>>
    /\ tell(staged_files[Len(staged_files)]) <= CHUNK_SIZE

\* C5 (as claimed): the status update runs exactly once in every invocation.
C5_UpdateAlwaysOnce == wf_pc = "done" => update_calls = 1
\* C5 (amended): the status update runs exactly once if create_run returned,
\* whatever the insert activity did, and never if the interval resolution or
\* create_run failed; it runs before the workflow terminates.
C5_UpdateOnceAfterCreateRun ==
    /\ update_calls <= 1
    /\ update_calls = 1 => wf_pc = "done" /\ runs # <<>>
    /\ wf_pc = "done" => update_calls = (IF runs = <<>> THEN 0 ELSE 1)
C5_Witness ==
    /\ wf_pc = "done"
    /\ update_calls = 1
    /\ insert_result \notin {"pending", "returned"}

\* C6: the status given to the status update is Completed exactly when the
\* insert activity returned, and Failed otherwise (cancellation included);
\* it is never Starting, and a run record is Completed only if the load (or
\* the zero-count exit) was reached.
C6_StatusMatchesOutcome ==
    /\ wf_pc = "update" => runs # <<>>
    /\ (wf_pc \in {"update", "done"} /\ runs # <<>>) =>
          /\ update_inputs.status \in {"Completed", "Failed"}
          /\ update_inputs.status = "Completed" <=> insert_result = "returned"
    /\ \A n \in DOMAIN runs :
          runs[n].status = "Completed" =>
              /\ insert_result = "returned"
              /\ count = 0 \/ (LastIsCopy /\ stage = <<>>)
C6_Witness ==
    /\ wf_pc = "done"
    /\ insert_result = "CancelledError"
    /\ runs[update_inputs.id].status = "Failed"

\* C7: an attempt that counts zero rows returns without connecting to the
\* destination and without a statement, the status given to the update is
\* Completed, and unless the status update itself fails the run ends
\* Completed without an exception; over an undisturbed source nothing at all
\* reaches the destination.
C7_EmptyInterval ==
    count = 0 =>
        /\ connect_calls = 0
        /\ ~conn_open
        /\ queries = <<>>
        /\ staged_files = <<>>
        /\ insert_result = "returned"
        /\ update_inputs.status = "Completed"
        /\ events = Uuids =>
              copy_issued = 0 /\ stage = <<>> /\ table = <<>> /\ ~table_created
        /\ wf_pc = "done" =>
              \/ wf_error = NoError /\ runs[update_inputs.id].status = "Completed"
              \/ wf_error.activity = "update_export_run_status"
C7_Witness ==
    /\ wf_pc = "done"
    /\ count = 0
    /\ events = Uuids
    /\ wf_error = NoError
    /\ runs[update_inputs.id].status = "Completed"

\* C8 (as claimed, for a non-zero count): when the stream yields no row, no
\* PUT and no COPY INTO is issued, and the table has been created.
C8_NoRowsNoStaging ==
    (insert_result = "returned" /\ count > 0 /\ fetched = <<>>)
    => /\ Occurrences(queries, "PUT") = 0
       /\ Occurrences(queries, "COPY INTO") = 0
       /\ table_created

\* C9 (as claimed): a completed invocation with rows, over an undisturbed
\* source, has issued COPY INTO exactly once over all attempts.
C9_CopyIssuedOnce ==
    (/\ wf_pc = "done"
     /\ update_inputs.status = "Completed"
     /\ count > 0
     /\ events = Uuids
     /\ Occurrences(fetched, EmptyRecord) = 0)
    => copy_issued = 1
\* C9 (amended): each attempt issues COPY INTO at most once, as its last
\* statement and only after every PUT it issued has staged its file; over
\* the at most maximum_attempts attempts it is issued at most once per
\* attempt, and an activity that returns after a non-zero count has issued
\* it in its last attempt.
C9_CopyOncePerAttempt ==
    /\ Occurrences(queries, "COPY INTO") <= 1
    /\ copy_issued <= attempt
    /\ attempt <= maximum_attempts
    /\ \A n \in DOMAIN queries :
          queries[n] = "COPY INTO" =>
              /\ n = Len(queries)
              /\ Occurrences(queries, "PUT") >= 1
              /\ Len(staged_files) = Occurrences(queries, "PUT")
    /\ (insert_result = "returned" /\ count > 0) => LastIsCopy /\ copy_issued >= 1
C9_Witness ==
    /\ wf_pc = "done"
    /\ update_inputs.status = "Completed"
    /\ copy_issued = 2

\* C10 (as claimed): when the insert activity failed, the workflow ends with
\* that failure, after the status update has run.
C10_OriginalFailurePropagates ==
    (wf_pc = "done" /\ insert_result \notin {"pending", "returned"})
    => /\ wf_error = ActivityError("insert_into_snowflake_activity", insert_result)
       /\ update_calls = 1

\* The status update of this invocation returned.
UpdateReturned ==
    /\ wf_pc = "done"
    /\ update_calls = 1
    /\ wf_error # ActivityError("update_export_run_status", "OperationalError")

\* C11 (as claimed): every invocation creates one run record whose status
\* has been changed when the invocation ends, so that after k invocations
\* there are k run records.
C11_OneRecordPerInvocation ==
    wf_pc = "done"
    => /\ Len(runs) = invocations
       /\ runs[Len(runs)].status \in {"Completed", "Failed"}
\* C11 (amended): an invocation creates one run record if interval resolution
\* and create_run succeed and none otherwise, so that the run records are at
\* most as many as the invocations; the record keeps status Starting until
\* the status update at the end of the invocation, which sets it once if it
\* returns and leaves it otherwise; records of earlier invocations are never
\* changed.
C11_OneRecordPerCreatedRun ==
    /\ Len(runs) <= invocations
    /\ SubSeq(runs, 1, Len(runs_at_start)) = runs_at_start
    /\ wf_pc \in {"resolve", "create_run"} => update_inputs.status = "none"
    /\ wf_pc \in {"insert", "update"} => update_inputs.status # "none"
    /\ update_inputs.status = "none" => runs = runs_at_start
    /\ update_inputs.status # "none" =>
          /\ Len(runs) = Len(runs_at_start) + 1
          /\ update_inputs.id = Len(runs)
          /\ runs[Len(runs)].status =
                 (IF UpdateReturned THEN update_inputs.status ELSE "Starting")
          /\ UpdateReturned => update_inputs.status \in {"Completed", "Failed"}
C11_Witness ==
    /\ invocations = MaxInvocations
    /\ wf_pc = "done"
    /\ Len(runs) = 2
    /\ runs[1].status = "Failed"
    /\ runs[2].status = "Completed"
    /\ Len(runs_at_start) = 1

\* No operation on the source store and no statement on the destination has
\* been performed by this invocation.
NoRemoteWork ==
    /\ attempt = 0
    /\ act_pc = "idle"
    /\ count = -1
    /\ fetched = <<>>
    /\ results_iterator = <<>>
    /\ connect_calls = 0
    /\ queries = <<>>
    /\ staged_files = <<>>
    /\ stage = <<>>
    /\ table = <<>>
    /\ ~table_created
    /\ ~client_open
    /\ ~conn_open
    /\ ~file_open

\* C12: until create_run has returned a run id, the source store has not
\* been used (liveness check, count, fetch) and no statement has been sent
\* to the destination; when create_run fails, the invocation ends without
\* any of that.
C12_CreateRunBeforeRemoteWork ==
    /\ update_inputs.status = "none" => NoRemoteWork
    /\ ~NoRemoteWork =>
          /\ update_inputs.id \in DOMAIN runs
          /\ wf_pc \in {"insert", "update", "done"}
    /\ (wf_pc = "done" /\ wf_error = ActivityError("create_export_run", "IntegrityError"))
          => NoRemoteWork /\ runs = <<>>
C12_Witness ==
    /\ wf_pc = "insert"
    /\ runs[update_inputs.id].status = "Starting"
    /\ act_pc = "copy_into"
    /\ Len(fetched) >= 2

\* C13: once the interval has been resolved it is (end - one hour, end),
\* where end is the explicit end when a non-empty one was given, whatever
\* the schedule signal is, and the first element of the schedule signal
\* otherwise; it is a function of these two inputs only.
C13_ResolvedInterval ==
    (wf_pc # "resolve" /\ interval # <<>>)
    => LET explicit == inputs.data_interval_end
           end == IF Truthy(explicit) THEN explicit.t
                  ELSE search_attributes.list[1].t
       IN /\ interval[2] = isoformat(end)
          /\ interval[1] = isoformat(end - 3600)
          /\ interval[1].t < interval[2].t
          /\ interval[2].t - interval[1].t = 3600
          /\ Truthy(explicit) =>
                \A signal \in ScheduleSignals :
                   get_data_interval_from_workflow_inputs(inputs, signal)
                   = get_data_interval_from_workflow_inputs(inputs, search_attributes)
          /\ ~Truthy(explicit) =>
                /\ search_attributes.present
                /\ search_attributes.list # <<>>
                /\ search_attributes.list[1].k \in {"str", "datetime"}
C13_Witness ==
    /\ wf_pc = "create_run"
    /\ inputs.data_interval_end = Str("iso", 2 * Window)
    /\ search_attributes = SearchAttr(<<Datetime(Window)>>)
    /\ interval = <<isoformat(Window), isoformat(2 * Window)>>

\* A schedule signal that is absent, or whose first element is neither a
\* non-empty string nor a timestamp.
InvalidSignal(signal) ==
    \/ ~signal.present
    \/ /\ signal.list # <<>>
       /\ \/ signal.list[1] = Str("", 0)
          \/ signal.list[1].k \notin {"str", "datetime"}

\* C14 (as claimed): without an explicit end, every invalid schedule signal
\* (absent, empty string, value of another type) makes the resolver fail
\* with one and the same kind of error, the one raised for an absent
\* signal, and no interval is produced.
C14_OneErrorKind ==
    (wf_pc # "resolve" /\ ~Truthy(inputs.data_interval_end)
     /\ InvalidSignal(search_attributes))
    => /\ interval = <<>>
       /\ wf_pc = "done"
       /\ wf_error = WorkflowCodeError("TypeError")

\* A step in which client.is_alive() has answered that the source store is
\* not alive.
LivenessCheckFails ==
    /\ act_pc = "is_alive"
    /\ act_pc' \notin {"is_alive", "get_rows_count"}
    /\ insert_result' # "CancelledError"
C15_AtLivenessCheck ==
    /\ act_pc = "is_alive" =>
          /\ count = -1
          /\ results_iterator = <<>>
          /\ fetched = <<>>
          /\ connect_calls = 0
          /\ queries = <<>>
    /\ insert_result = "ConnectionError" =>
          /\ act_pc = "idle"
          /\ wf_pc \in {"update", "done"}
          /\ count = -1
          /\ connect_calls = 0
          /\ queries = <<>>
          /\ update_inputs.status = "Failed"
          /\ UpdateReturned => runs[update_inputs.id].status = "Failed"
C15_NoRetry ==
    LivenessCheckFails =>
        /\ act_pc' = "idle"
        /\ attempt' = attempt
        /\ insert_result' = "ConnectionError"
        /\ wf_pc' = "update"
        /\ update_inputs'.status = "Failed"
        /\ ~client_open' /\ ~conn_open'
\* C15: the liveness check is the first use of the source store in an
\* attempt; when it fails, the attempt has neither counted nor connected to
\* the destination, the activity ends with ConnectionError without another
\* attempt, and the status given to (and, unless the status update itself
\* fails, recorded by) the status update is Failed.
C15_LivenessCheckedFirst == []C15_AtLivenessCheck /\ [][C15_NoRetry]_vars
C15_Witness ==
    /\ wf_pc = "done"
    /\ insert_result = "ConnectionError"
    /\ attempt = 1
    /\ runs[update_inputs.id].status = "Failed"

\* C16: whenever no attempt of the insert activity is executing (it returned,
\* returned on a zero count, failed at a statement or a fetch, or was
\* cancelled), the source client is released, the destination connection is
\* closed and no temporary file is open; while an attempt executes, the only
\* temporary file that can be open is the current one, so a file replaced
\* at a chunk rotation is closed.
C16_ResourcesReleased ==
    /\ act_pc \in {"idle", "scheduled"} =>
          /\ ~client_open
          /\ ~conn_open
          /\ ~file_open
          /\ open_files = {}
    /\ open_files \subseteq {file_id}
    /\ file_open <=> open_files # {}
    /\ act_pc \in {"anext", "put_chunk", "put_final"} =>
          client_open /\ conn_open /\ open_files = {file_id}
    /\ conn_open => client_open
C16_Witness ==
    /\ act_pc = "idle"
    /\ insert_result = "CancelledError"
    /\ files_created >= 2
    /\ ~client_open /\ ~conn_open /\ open_files = {}

\* The attempt that has just ended failed in json.loads: the last record it
\* fetched has properties that are not JSON.
ValidationFailed ==
    /\ fetched # <<>>
    /\ ~JsonLoadsOk(fetched[Len(fetched)])

\* C17 (as claimed): there are at most maximum_attempts attempts; a retry is
\* pending only after a failure that is not a validation failure, and none
\* once the activity has failed with ConnectionError; the status update
\* runs once, after the last attempt.
C17_RetryPolicy ==
    /\ attempt <= maximum_attempts
    /\ (act_pc = "scheduled" /\ attempt >= 1) => ~ValidationFailed
    /\ insert_result = "ConnectionError" => act_pc = "idle"
    /\ update_calls <= 1
    /\ update_calls = 1 => act_pc = "idle" /\ insert_result # "pending"

\* C18: within an attempt no two PUTs name the same temporary file; a file
\* that a PUT has named is closed and is not the file rows are written to,
\* so that the rows fetched after a PUT are in a file created after it: the
\* staged files followed by the current file hold each fetched row once.
C18_BufferStagedOnce ==
    /\ Len(put_ids) = Len(staged_files)
    /\ \A m, n \in DOMAIN put_ids : m # n => put_ids[m] # put_ids[n]
    /\ \A n \in DOMAIN put_ids : put_ids[n] \notin open_files
    /\ act_pc \in {"anext", "put_chunk", "put_final"} =>
          /\ \A n \in DOMAIN put_ids : file_id > put_ids[n]
          /\ Flatten(staged_files) \o local_results_file = RowsOf(fetched)
          /\ files_created = Len(put_ids) + 1
C18_Witness ==
    /\ act_pc = "copy_into"
    /\ put_ids = <<1, 2, 3, 4>>
    /\ staged_files[3] # <<>>
    /\ open_files = {}

\* A file that was staged because it had grown over the chunk size: it is
\* larger than the chunk size and was not before its last row was written.
SealedByThreshold(file) ==
    /\ file # <<>>
    /\ tell(file) > CHUNK_SIZE
    /\ tell(SubSeq(file, 1, Len(file) - 1)) <= CHUNK_SIZE
\* The files the PUTs inside the loop have staged in this attempt.
ChunkFiles ==
    IF act_pc \in {"anext", "put_chunk", "put_final"}
    THEN staged_files
    ELSE SubSeq(staged_files, 1, Len(staged_files) - 1)

\* C19: a file is staged inside the loop exactly when, after a row has been
\* written, its size is greater than the chunk size T: every staged file but
\* the last is larger than T and was at most T before its last row, the
\* file being written never is larger than T when the next row is fetched
\* and holds only the rows written since the last PUT, and with T = 0 every
\* row has a staged file of its own.
C19_ThresholdSeal ==
    /\ \A n \in DOMAIN ChunkFiles : SealedByThreshold(ChunkFiles[n])
    /\ act_pc = "put_chunk" => SealedByThreshold(local_results_file)
    /\ act_pc \in {"anext", "put_final"} =>
          /\ tell(local_results_file) <= CHUNK_SIZE
          /\ tell(local_results_file)
                = tell(RowsOf(fetched)) - tell(Flatten(staged_files))
    /\ CHUNK_SIZE = 0 =>
          /\ \A n \in DOMAIN ChunkFiles : Len(ChunkFiles[n]) = 1
          /\ act_pc \in {"anext", "put_final"} =>
                Len(ChunkFiles) = Len(RowsOf(fetched))
C19_Witness ==
    /\ act_pc = "copy_into"
    /\ CHUNK_SIZE = MaxThreshold
    /\ Len(staged_files) = 2
    /\ Len(staged_files[1]) = 2
    /\ Len(staged_files[2]) = 1

\* The last attempt of the insert activity ended with a failure.
AttemptFailed ==
    \/ act_pc = "scheduled" /\ attempt >= 1
    \/ act_pc = "idle" /\ insert_result \notin {"pending", "returned"}
\* A step in which a destination statement or a fetch fails.
FailureStep ==
    /\ act_pc \in StatementPcs \cup {"anext"}
    /\ act_pc' \in {"idle", "scheduled"}
    /\ insert_result' # "returned"
C20_AfterFailure ==
    /\ \A n \in DOMAIN queries :
          queries[n] \in {Statement(pc) : pc \in StatementPcs}
    /\ AttemptFailed =>
          /\ Len(stage) >= Len(staged_files)
          /\ SubSeq(stage, Len(stage) - Len(staged_files) + 1, Len(stage))
                = staged_files
          /\ Occurrences(queries, "PUT") > Len(staged_files) =>
                /\ queries[Len(queries)] = "PUT"
                /\ Occurrences(queries, "COPY INTO") = 0
C20_AtFailure ==
    /\ FailureStep =>
          /\ IF act_pc = "anext"
             THEN queries' = queries
             ELSE queries' \in {queries, Append(queries, Statement(act_pc))}
          /\ UNCHANGED <<stage, staged_files, table>>
    /\ (act_pc \in {"idle", "scheduled"} /\ act_pc' \in {"idle", "scheduled"})
          => UNCHANGED <<queries, stage, staged_files, table>>
\* C20: the step in which a destination statement or a fetch fails ends the
\* attempt: the failed statement is the last one the attempt has sent (no
\* COPY INTO after a failed PUT, no statement that removes files), and the
\* files the attempt had staged are still in the stage afterwards.
C20_AbortAtFailure == []C20_AfterFailure /\ [][C20_AtFailure]_vars
C20_Witness ==
    /\ act_pc = "scheduled"
    /\ Occurrences(queries, "PUT") = 2
    /\ queries[Len(queries)] = "PUT"
    /\ Len(staged_files) = 1
    /\ stage = staged_files

\* The (start, end) pair of the run record of this invocation.
RecordedInterval ==
    <<runs[update_inputs.id].data_interval_start,
      runs[update_inputs.id].data_interval_end>>
C21_RecordedIsResolved ==
    /\ wf_pc \in {"create_run", "insert", "update"} => interval # <<>>
    /\ update_inputs.status # "none" => RecordedInterval = interval
C21_IntervalKept ==
    /\ wf_pc # "resolve" => interval' = interval
    /\ (update_inputs.status # "none" /\ update_inputs'.status # "none")
          => RecordedInterval' = RecordedInterval
    /\ (act_pc = "get_rows_count" /\ count' # count) =>
          count' = Cardinality(SelectQuery(events, inputs.team_id,
                                           RecordedInterval[1], RecordedInterval[2]))
    /\ (act_pc = "create_table" /\ act_pc' = "anext") =>
          results_iterator' = get_results_iterator(events, inputs.team_id,
                                                   RecordedInterval[1], RecordedInterval[2])
\* C21: the interval is set by the one resolution at the start of run() and
\* never changes afterwards; the pair in the run record is that interval,
\* and the count query and the select query of every attempt of the insert
\* activity are made with that same pair.
C21_IntervalDerivedOnce == []C21_RecordedIsResolved /\ [][C21_IntervalKept]_vars
C21_Witness ==
    /\ attempt = maximum_attempts
    /\ act_pc = "anext"
    /\ fetched # <<>>
    /\ RecordedInterval = <<isoformat(Window), isoformat(2 * Window)>>
    /\ interval = RecordedInterval

\* The iterator has yielded an empty record in this attempt.
EmptyRecordFetched == Occurrences(fetched, EmptyRecord) >= 1
\* The loop of this attempt has ended.
LoopEnded == act_pc \in {"put_final", "copy_into"} \/ LastIsCopy

\* C22: the loop has ended only at the exhaustion of the iterator or at an
\* empty record; an empty record is the last record the attempt fetches, the
\* records the iterator still holds are not fetched and none of them is in
\* a staged file, only the rows fetched before it are staged; the attempt
\* goes on to the final PUT and to COPY INTO, and an activity that returned
\* after an empty record has issued both as its last statements.
C22_LoopEnd ==
    /\ LoopEnded => results_iterator = <<>> \/ EmptyRecordFetched
    /\ EmptyRecordFetched =>
          /\ fetched[Len(fetched)] = EmptyRecord
          /\ Occurrences(fetched, EmptyRecord) = 1
          /\ act_pc \in {"put_final", "copy_into", "idle", "scheduled"}
          /\ results_iterator # <<>>
          /\ \A n \in DOMAIN results_iterator :
                Occurrences(Flatten(staged_files) \o local_results_file,
                            Row(results_iterator[n])) = 0
          /\ act_pc = "put_final" =>
                Flatten(staged_files) \o local_results_file = RowsOf(fetched)
          /\ (act_pc = "copy_into" \/ insert_result = "returned") =>
                /\ Flatten(staged_files) = RowsOf(fetched)
                /\ queries[Len(queries) - (IF LastIsCopy THEN 1 ELSE 0)] = "PUT"
          /\ insert_result = "returned" =>
                /\ LastIsCopy
                /\ update_inputs.status = "Completed"
C22_Witness ==
    /\ wf_pc = "done"
    /\ insert_result = "returned"
    /\ fetched = <<EventRecord(2), EmptyRecord>>
    /\ Len(results_iterator) = 2
    /\ staged_files = <<<<Row(EventRecord(2))>>>>
    /\ LastIsCopy
    /\ runs[update_inputs.id].status = "Completed"

====
